---- MODULE Spec2Model ----
(***************************************************************************)
(* Model of the analytics pipeline of src/app.py: one run of the script    *)
(* takes the loaded samples and the widget values and produces the sample  *)
(* columns, the KPIs, the event tables, the filtered view and the hourly   *)
(* rollup.  Every widget change re-runs the whole script.                  *)
(*                                                                         *)
(* Timestamps are whole seconds counted from midnight of day 0.  Speeds    *)
(* and quantities are integers.  Every quotient the script computes is     *)
(* kept exact as a fraction [num, den]; a fraction with den = 0 stands for *)
(* the NaN / infinity a division by zero produces.                         *)
(***************************************************************************)
EXTENDS Integers, Sequences, FiniteSets, TLC

VARIABLES
    df,                     \* the sample rows with every derived column
    mc_min_speed_req,       \* sidebar: M/c. Min Speed Req.
    idle_time,              \* sidebar: Idle Time Threshold (min)
    date_range,             \* date picker: <<start, end>>, <<date>>, or <<>> when no date exists
    time_range,             \* hour slider: <<start_hour, end_hour>>
    total_minutes,
    running_minutes,
    uptime_percent,
    avg_speed,
    total_production,
    idle_events,
    long_idles,
    low_speed_events_all,
    low_speed_events_sorted,
    kpi1,                   \* the four metrics shown at the top
    kpi2,
    kpi3,
    kpi4,
    filtered_df,
    display_idle_events,
    filtered_idle_events,
    hourly_stats

vars == <<df, mc_min_speed_req, idle_time, date_range, time_range,
          total_minutes, running_minutes, uptime_percent, avg_speed,
          total_production, idle_events, long_idles, low_speed_events_all,
          low_speed_events_sorted, kpi1, kpi2, kpi3, kpi4, filtered_df, display_idle_events,
          filtered_idle_events, hourly_stats>>

----------------------------------------------------------------------------
(* Bounds and input sets *)

MaxLen == 3

SecondsPerMinute == 60
SecondsPerHour == 3600
SecondsPerDay == 86400
DefaultMinSpeedReq == 10
DefaultIdleTime == 10
FirstHour == 0
LastHour == 23

\* 00:00:00, 00:00:01 and 00:01:00 of day 0
TimestampsA == {0, 1, 60}
\* 00:00:00, 00:59:59 and 01:00:00 of day 0, and 00:00:00 of day 1
TimestampsW == {0, 3599, 3600, 86400}
SpeedsA == {1, 2, 10}
SpeedsW == {1, 10}
Quantities == {0, 1}
MinSpeedReqs == {1, 10}
IdleTimes == {1, 2, 3}
Hours == {0, 1}

----------------------------------------------------------------------------
(* Exact arithmetic *)

Frac(n, d) == [num |-> n, den |-> d]
Zero == Frac(0, 1)
IsNumber(x) == x.den # 0
FracEq(x, y) == IsNumber(x) /\ IsNumber(y) /\ x.num * y.den = y.num * x.den
\* x >= n for a fraction x with a positive denominator and an integer n
FracGE(x, n) == x.num >= n * x.den
\* x >= y for fractions with positive denominators
FracGEF(x, y) == x.num * y.den >= y.num * x.den

\* the integer nearest to n / d (d > 0), ties to the even neighbour
RoundHalfEven(n, d) ==
    LET q == (2 * n + d) \div (2 * d)
        tie == (2 * n + d) % (2 * d) = 0
    IN IF tie /\ q % 2 = 1 THEN q - 1 ELSE q

Pow10(k) == IF k = 0 THEN 1 ELSE IF k = 1 THEN 10 ELSE IF k = 2 THEN 100
            ELSE IF k = 3 THEN 1000 ELSE 10000

\* round(x, k); NaN stays NaN
Round(x, k) ==
    IF x.den = 0 THEN x
    ELSE IF x.den < 0 THEN Frac(RoundHalfEven((0 - x.num) * Pow10(k), 0 - x.den), Pow10(k))
    ELSE Frac(RoundHalfEven(x.num * Pow10(k), x.den), Pow10(k))

RECURSIVE SumSeq(_)
SumSeq(s) == IF s = <<>> THEN 0 ELSE Head(s) + SumSeq(Tail(s))

SeqMin(s) == CHOOSE x \in {s[i] : i \in 1..Len(s)} : \A j \in 1..Len(s) : x <= s[j]
SeqMax(s) == CHOOSE x \in {s[i] : i \in 1..Len(s)} : \A j \in 1..Len(s) : x >= s[j]

\* the mean of a non-empty column
Mean(s) == Frac(SumSeq(s), Len(s))

Column(rows, f) == [i \in 1..Len(rows) |-> rows[i][f]]

RECURSIVE SortedSeqOf(_)
SortedSeqOf(S) ==
    IF S = {} THEN <<>>
    ELSE LET m == CHOOSE x \in S : \A y \in S : x <= y
         IN <<m>> \o SortedSeqOf(S \ {m})

----------------------------------------------------------------------------
(* Time-based columns *)

DateOf(ts) == ts \div SecondsPerDay
HourOf(ts) == (ts % SecondsPerDay) \div SecondsPerHour
\* datetime.combine(date, time(hour, minute, second))
Combine(date, hour, minute, second) ==
    date * SecondsPerDay + hour * SecondsPerHour + minute * SecondsPerMinute + second

----------------------------------------------------------------------------
(* Core definitions: the three tags of a sample *)

IdleStrict(speed) == speed < 1
Idle(speed) == speed <= 1
IsRunning(speed) == speed > 1
IsLowSpeedNoFloor(speed, req) == speed < req
IsLowSpeed(speed, req) == (speed < req) /\ (speed > 1)

----------------------------------------------------------------------------
(* Run ids: (col != col.shift()).cumsum() *)

NotEqualShiftRising(col) ==
    [i \in 1..Len(col) |-> IF i = 1 THEN TRUE ELSE col[i] /\ ~col[i - 1]]

\* col != col.shift(): the first row is compared with a missing value and differs
NotEqualShift(col) ==
    [i \in 1..Len(col) |-> IF i = 1 THEN TRUE ELSE col[i] # col[i - 1]]

\* cumsum() of a boolean column
CumSum(flags) ==
    [i \in 1..Len(flags) |-> Cardinality({j \in 1..i : flags[j]})]

RunIds(col) == CumSum(NotEqualShift(col))

\* the rows of df once every column is added
DfRows(raw, req) ==
    LET idleCol == [i \in 1..Len(raw) |-> Idle(raw[i].speed)]
        lowCol == [i \in 1..Len(raw) |-> IsLowSpeed(raw[i].speed, req)]
        idleGroup == RunIds(idleCol)
        lowGroup == RunIds(lowCol)
    IN [i \in 1..Len(raw) |->
          [timestamp |-> raw[i].timestamp,
           speed |-> raw[i].speed,
           quantity |-> raw[i].quantity,
           idle |-> idleCol[i],
           is_running |-> IsRunning(raw[i].speed),
           is_low_speed |-> lowCol[i],
           date |-> DateOf(raw[i].timestamp),
           hour |-> HourOf(raw[i].timestamp),
           idle_group |-> idleGroup[i],
           low_speed_group |-> lowGroup[i]]]

\* the three input columns of df
RawOf(d) ==
    [i \in 1..Len(d) |->
       [timestamp |-> d[i].timestamp, speed |-> d[i].speed, quantity |-> d[i].quantity]]

----------------------------------------------------------------------------
(* KPI calculations *)

TotalMinutes(d) ==
    IF Len(d) > 1
    THEN Frac(d[Len(d)].timestamp - d[1].timestamp, SecondsPerMinute)
    ELSE Zero

RunningMinutes(d) == Cardinality({i \in 1..Len(d) : d[i].is_running})

UptimePercentUnguarded(rm, tm) == Frac(100 * rm * tm.den, tm.num)

\* 100 * running_minutes / total_minutes if total_minutes else 0
UptimePercent(rm, tm) ==
    IF tm.num # 0 THEN Frac(100 * rm * tm.den, tm.num) ELSE Zero

AvgSpeed(d, rm) ==
    IF rm # 0
    THEN Mean(Column(SelectSeq(d, LAMBDA r : r.is_running), "speed"))
    ELSE Zero

TotalProduction(d) ==
    IF Len(d) > 1 THEN d[Len(d)].quantity - d[1].quantity ELSE 0

\* f"{x:.1f}": the number shown, to one decimal
Format1(x) == Round(x, 1)

----------------------------------------------------------------------------
(* Event tables *)

\* groupby(f): the keys in ascending order, and the rows of one key in df order
GroupKeys(rows, f) == SortedSeqOf({rows[i][f] : i \in 1..Len(rows)})
GroupRows(rows, f, k) == SelectSeq(rows, LAMBDA r : r[f] = k)

IdleDurationInclusive(x) ==
    Frac(x[Len(x)] - x[1] + SecondsPerMinute, SecondsPerMinute)

\* lambda x: (x.iloc[-1] - x.iloc[0]).total_seconds() / 60
IdleDuration(x) == Frac(x[Len(x)] - x[1], SecondsPerMinute)

\* lambda x: round((x.iloc[-1] - x.iloc[0]).total_seconds() / 60, 4)
LowSpeedDuration(x) == Round(Frac(x[Len(x)] - x[1], SecondsPerMinute), 4)

IdleEvents(d) ==
    LET tagged == SelectSeq(d, LAMBDA r : r.idle)
        keys == GroupKeys(tagged, "idle_group")
    IN [k \in 1..Len(keys) |->
          LET g == GroupRows(tagged, "idle_group", keys[k])
          IN [idle_group |-> keys[k],
              start |-> g[1].timestamp,
              end |-> g[Len(g)].timestamp,
              duration |-> IdleDuration(Column(g, "timestamp")),
              avg_speed |-> Mean(Column(g, "speed"))]]

LongIdlesStrict(events, it) ==
    SelectSeq(events, LAMBDA e : e.duration.num > it * e.duration.den)

\* idle_events[idle_events['duration'] >= idle_time]
LongIdles(events, it) == SelectSeq(events, LAMBDA e : FracGE(e.duration, it))

LowSpeedEventsAll(d) ==
    LET tagged == SelectSeq(d, LAMBDA r : r.is_low_speed)
        keys == GroupKeys(tagged, "low_speed_group")
    IN [k \in 1..Len(keys) |->
          LET g == GroupRows(tagged, "low_speed_group", keys[k])
          IN [start |-> g[1].timestamp,
              end |-> g[Len(g)].timestamp,
              duration |-> LowSpeedDuration(Column(g, "timestamp")),
              min_speed |-> SeqMin(Column(g, "speed")),
              max_speed |-> SeqMax(Column(g, "speed")),
              avg_speed |-> Mean(Column(g, "speed"))]]

\* sort_values('duration', ascending=False); rows of equal duration keep their order
RECURSIVE InsertByDuration(_, _)
InsertByDuration(s, e) ==
    IF s = <<>> THEN <<e>>
    ELSE IF FracGEF(Head(s).duration, e.duration)
         THEN <<Head(s)>> \o InsertByDuration(Tail(s), e)
         ELSE <<e>> \o s

RECURSIVE SortByDuration(_)
SortByDuration(s) ==
    IF s = <<>> THEN <<>>
    ELSE InsertByDuration(SortByDuration(SubSeq(s, 1, Len(s) - 1)), s[Len(s)])

----------------------------------------------------------------------------
(* Date/time filter *)

InHourRange(r, tr) == (r.hour >= tr[1]) /\ (r.hour <= tr[2])

FilteredDf(d, dr, tr) ==
    IF Len(dr) = 2
    THEN SelectSeq(d, LAMBDA r : (r.date >= dr[1]) /\ (r.date <= dr[2]) /\ InHourRange(r, tr))
    ELSE SelectSeq(d, LAMBDA r : (r.date = dr[1]) /\ InHourRange(r, tr))

StartDatetime(dr, tr) == Combine(dr[1], tr[1], 0, 0)

EndDatetime(dr, tr) ==
    IF Len(dr) = 2
    THEN Combine(dr[2], tr[2], 59, 59)
    ELSE Combine(dr[1], tr[2], 59, 59)

InWindowOverlap(e, lo, hi) == (e.end >= lo) /\ (e.start <= hi)
InWindow(e, lo, hi) == (e.start >= lo) /\ (e.end <= hi)

FilteredIdleEvents(events, dr, tr) ==
    LET inside == IF events # <<>>
                  THEN SelectSeq(events,
                         LAMBDA e : InWindow(e, StartDatetime(dr, tr), EndDatetime(dr, tr)))
                  ELSE <<>>
    IN IF inside # <<>> THEN SortByDuration(inside) ELSE <<>>

----------------------------------------------------------------------------
(* Hourly performance table *)

BoolToInt(b) == IF b THEN 1 ELSE 0

HourProductionLast(x) == IF Len(x) > 1 THEN x[Len(x)] ELSE 0

\* lambda x: x.iloc[-1] - x.iloc[0] if len(x) > 1 else 0
HourProduction(x) == IF Len(x) > 1 THEN x[Len(x)] - x[1] ELSE 0

HourlyStats(fd) ==
    [h \in {fd[i].hour : i \in 1..Len(fd)} |->
       LET g == GroupRows(fd, "hour", h)
           ratio == Round(Mean([i \in 1..Len(g) |-> BoolToInt(g[i].is_running)]), 2)
       IN [Avg_Speed |-> Round(Mean(Column(g, "speed")), 2),
           Max_Speed |-> Round(Frac(SeqMax(Column(g, "speed")), 1), 2),
           Min_Speed |-> Round(Frac(SeqMin(Column(g, "speed")), 1), 2),
           Uptime_Percent |-> Round(Frac(100 * ratio.num, ratio.den), 1),
           Production |-> Round(Frac(HourProduction(Column(g, "quantity")), 1), 2)]]

----------------------------------------------------------------------------
(* One run of the script, top to bottom *)

\* the default of the date picker: (min_date, max_date); no date when df is empty
DefaultDateRange(raw) ==
    IF raw = <<>> THEN <<>>
    ELSE LET dates == {DateOf(raw[i].timestamp) : i \in 1..Len(raw)}
         IN <<CHOOSE a \in dates : \A b \in dates : a <= b,
              CHOOSE a \in dates : \A b \in dates : a >= b>>

\* Everything the script computes from the loaded rows and the widget values.
\* With no date to offer, the date picker ends the run: nothing below it is made.
Script(raw, req, it, dr, tr) ==
    LET d == DfRows(raw, req)
        tm == TotalMinutes(d)
        rm == RunningMinutes(d)
        ie == IdleEvents(d)
        ls == LowSpeedEventsAll(d)
        shown == dr # <<>>
        die == IF shown THEN LongIdles(ie, it) ELSE <<>>
        fd == IF shown THEN FilteredDf(d, dr, tr) ELSE <<>>
    IN [df |-> d,
        total_minutes |-> tm,
        running_minutes |-> rm,
        uptime_percent |-> UptimePercent(rm, tm),
        avg_speed |-> AvgSpeed(d, rm),
        total_production |-> TotalProduction(d),
        idle_events |-> ie,
        long_idles |-> LongIdles(ie, it),
        low_speed_events_all |-> ls,
        low_speed_events_sorted |-> SortByDuration(ls),
        kpi1 |-> Format1(UptimePercent(rm, tm)),
        kpi2 |-> Format1(AvgSpeed(d, rm)),
        kpi3 |-> Format1(Frac(TotalProduction(d), 1)),
        kpi4 |-> Len(LongIdles(ie, it)),
        filtered_df |-> fd,
        display_idle_events |-> die,
        filtered_idle_events |-> IF shown THEN FilteredIdleEvents(die, dr, tr) ELSE <<>>,
        hourly_stats |-> IF shown THEN HourlyStats(fd) ELSE <<>>]

\* the first run after a file is loaded
FirstRun(raw, req, it, dr, tr) ==
    \E o \in {Script(raw, req, it, dr, tr)} :
       /\ mc_min_speed_req = req
       /\ idle_time = it
       /\ date_range = dr
       /\ time_range = tr
       /\ df = o.df
       /\ total_minutes = o.total_minutes
       /\ running_minutes = o.running_minutes
       /\ uptime_percent = o.uptime_percent
       /\ avg_speed = o.avg_speed
       /\ total_production = o.total_production
       /\ idle_events = o.idle_events
       /\ long_idles = o.long_idles
       /\ low_speed_events_all = o.low_speed_events_all
       /\ low_speed_events_sorted = o.low_speed_events_sorted
       /\ kpi1 = o.kpi1
       /\ kpi2 = o.kpi2
       /\ kpi3 = o.kpi3
       /\ kpi4 = o.kpi4
       /\ filtered_df = o.filtered_df
       /\ display_idle_events = o.display_idle_events
       /\ filtered_idle_events = o.filtered_idle_events
       /\ hourly_stats = o.hourly_stats

\* a re-run of the script after a widget change
Rerun(raw, req, it, dr, tr) ==
    \E o \in {Script(raw, req, it, dr, tr)} :
       /\ mc_min_speed_req' = req
       /\ idle_time' = it
       /\ date_range' = dr
       /\ time_range' = tr
       /\ df' = o.df
       /\ total_minutes' = o.total_minutes
       /\ running_minutes' = o.running_minutes
       /\ uptime_percent' = o.uptime_percent
       /\ avg_speed' = o.avg_speed
       /\ total_production' = o.total_production
       /\ idle_events' = o.idle_events
       /\ long_idles' = o.long_idles
       /\ low_speed_events_all' = o.low_speed_events_all
       /\ low_speed_events_sorted' = o.low_speed_events_sorted
       /\ kpi1' = o.kpi1
       /\ kpi2' = o.kpi2
       /\ kpi3' = o.kpi3
       /\ kpi4' = o.kpi4
       /\ filtered_df' = o.filtered_df
       /\ display_idle_events' = o.display_idle_events
       /\ filtered_idle_events' = o.filtered_idle_events
       /\ hourly_stats' = o.hourly_stats

----------------------------------------------------------------------------
(* The loaded file: rows sorted by timestamp *)

\* Rows of equal timestamp may come out of sort_values in any order, so every
\* order of them is a dataset.  quantity is a cumulative counter: it never drops.
Samples(T, S, Q) == [timestamp : T, speed : S, quantity : Q]

DatasetsUnsorted(T, S, Q) ==
    UNION {[1..n -> Samples(T, S, Q)] : n \in 0..MaxLen}

Datasets(T, S, Q) ==
    {s \in UNION {[1..n -> Samples(T, S, Q)] : n \in 0..MaxLen} :
        \A i \in 1..(Len(s) - 1) :
            /\ s[i].timestamp <= s[i + 1].timestamp
            /\ s[i].quantity <= s[i + 1].quantity}

\* ten samples one minute apart
ScenarioSpeeds == <<0, 0, 0, 5, 5, 12, 12, 3, 0, 0>>
ScenarioRaw ==
    [i \in 1..Len(ScenarioSpeeds) |->
       [timestamp |-> (i - 1) * SecondsPerMinute,
        speed |-> ScenarioSpeeds[i],
        quantity |-> i - 1]]

DateRanges(d) ==
    IF d = <<>> THEN {} ELSE
    LET dates == {d[i].date : i \in 1..Len(d)}
        lo == CHOOSE a \in dates : \A b \in dates : a <= b
        hi == CHOOSE a \in dates : \A b \in dates : a >= b
    IN {<<a, b>> : a \in lo..hi, b \in lo..hi} \cup {<<a>> : a \in lo..hi}

TimeRanges == {<<a, b>> : a \in Hours, b \in Hours}

----------------------------------------------------------------------------
(* Widget changes; each re-runs the script *)

SetMinSpeedReq(v) ==
    /\ v # mc_min_speed_req
    /\ Rerun(RawOf(df), v, idle_time, date_range, time_range)

SetIdleTime(v) ==
    /\ v # idle_time
    /\ Rerun(RawOf(df), mc_min_speed_req, v, date_range, time_range)

SetDateRange(dr) ==
    /\ df # <<>>
    /\ dr # date_range
    /\ (Len(dr) = 2 => dr[1] <= dr[2])
    /\ Rerun(RawOf(df), mc_min_speed_req, idle_time, dr, time_range)

SetTimeRange(tr) ==
    /\ df # <<>>
    /\ tr # time_range
    /\ tr[1] <= tr[2]
    /\ Rerun(RawOf(df), mc_min_speed_req, idle_time, date_range, tr)

----------------------------------------------------------------------------
(* Specifications *)

\* any file, the thresholds varied, the window left at its default
InitEvents ==
    \E raw \in Datasets(TimestampsA, SpeedsA, Quantities) \cup {ScenarioRaw} :
        FirstRun(raw, DefaultMinSpeedReq, DefaultIdleTime,
                 DefaultDateRange(raw), <<FirstHour, LastHour>>)

NextEvents ==
    \/ \E v \in MinSpeedReqs : SetMinSpeedReq(v)
    \/ \E v \in IdleTimes : SetIdleTime(v)

SpecEvents == InitEvents /\ [][NextEvents]_vars

\* files spanning hours and days, the window varied
InitWindow ==
    \E raw \in Datasets(TimestampsW, SpeedsW, Quantities) :
        FirstRun(raw, DefaultMinSpeedReq, DefaultIdleTime,
                 DefaultDateRange(raw), <<FirstHour, LastHour>>)

NextWindow ==
    \/ \E dr \in DateRanges(df) : SetDateRange(dr)
    \/ \E tr \in TimeRanges : SetTimeRange(tr)

SpecWindow == InitWindow /\ [][NextWindow]_vars

----------------------------------------------------------------------------
(* Naive scans used to state the properties *)

Timestamps == Column(df, "timestamp")
IdleTags == Column(df, "idle")
LowSpeedTags == Column(df, "is_low_speed")
RunningCount == Cardinality({i \in 1..Len(df) : df[i].speed > 1})

\* the maximal contiguous same-tag groups of a column, as index intervals
MaxRuns(tags) ==
    {p \in (1..Len(tags)) \X (1..Len(tags)) :
        /\ p[1] <= p[2]
        /\ \A k \in p[1]..p[2] : tags[k] = tags[p[1]]
        /\ (p[1] = 1 \/ tags[p[1] - 1] # tags[p[1]])
        /\ (p[2] = Len(tags) \/ tags[p[2] + 1] # tags[p[1]])}

\* the maximal contiguous runs of true
TrueRuns(tags) == {p \in MaxRuns(tags) : tags[p[1]]}

RunIdsSegment(ids, tags) ==
    /\ \A i \in 1..(Len(ids) - 1) :
          /\ ids[i] <= ids[i + 1]
          /\ (tags[i + 1] # tags[i]) => ids[i + 1] = ids[i] + 1
          /\ (tags[i + 1] = tags[i]) => ids[i + 1] = ids[i]
    /\ Cardinality({ids[i] : i \in 1..Len(ids)}) = Cardinality(MaxRuns(tags))
    /\ {{i \in 1..Len(ids) : tags[i] /\ ids[i] = k} : k \in {ids[j] : j \in {j \in 1..Len(ids) : tags[j]}}}
         = {p[1]..p[2] : p \in TrueRuns(tags)}

----------------------------------------------------------------------------
(* C1 *)

\* C1: with at least two samples the dataset-level uptime_percent equals
\* 100 x (number of samples with speed > 1) / (number of samples), whatever
\* the spacing of the timestamps.
C1_UptimeIsSampleCountRatio ==
    Len(df) >= 2 => FracEq(uptime_percent, Frac(100 * RunningCount, Len(df)))

----------------------------------------------------------------------------
(* C2 *)

\* C2: every sample has exactly one of idle / is_running set (idle iff
\* speed <= 1, is_running iff speed > 1), is_low_speed implies is_running and
\* not idle, and with a min-speed threshold <= 1 no sample is low-speed.
C2_TagsPartition ==
    \A i \in 1..Len(df) :
        /\ df[i].idle # df[i].is_running
        /\ df[i].idle <=> (df[i].speed <= 1)
        /\ df[i].is_running <=> (df[i].speed > 1)
        /\ df[i].is_low_speed => (df[i].is_running /\ ~df[i].idle)
        /\ (mc_min_speed_req <= 1) => ~df[i].is_low_speed

C2_Witness ==
    /\ mc_min_speed_req <= 1
    /\ \E i \in 1..Len(df) : df[i].speed = 1 /\ df[i].idle
    /\ \E i \in 1..Len(df) : df[i].speed > 1 /\ df[i].is_running /\ ~df[i].is_low_speed

----------------------------------------------------------------------------
(* C3 *)

\* C3: for the idle tag and for the low-speed tag the run-id column never
\* decreases, stays constant inside a run and grows by one exactly where the
\* tag differs from the preceding sample; the number of distinct run-ids is
\* the number of maximal contiguous same-tag groups, and the true-tagged
\* samples grouped by run-id are exactly the maximal contiguous true-runs.
C3_RunIdsSegmentTheColumn ==
    /\ RunIdsSegment(Column(df, "idle_group"), IdleTags)
    /\ RunIdsSegment(Column(df, "low_speed_group"), LowSpeedTags)

C3_Witness ==
    /\ Len(df) = 3
    /\ df[1].idle /\ ~df[2].idle /\ df[3].idle
    /\ df[1].idle_group < df[2].idle_group /\ df[2].idle_group < df[3].idle_group
    /\ ~df[1].is_low_speed /\ df[2].is_low_speed

----------------------------------------------------------------------------
(* C4 *)

\* the k-th maximal true-run of a column, in sample order
NthTrueRun(tags, k) ==
    CHOOSE p \in TrueRuns(tags) :
        Cardinality({q \in TrueRuns(tags) : q[1] < p[1]}) = k - 1

\* one event per maximal true-run, in run order, from its first to its last sample
EventsSpanRuns(events, tags) ==
    /\ Len(events) = Cardinality(TrueRuns(tags))
    /\ \A k \in 1..Len(events) :
          LET p == NthTrueRun(tags, k)
          IN /\ events[k].start = Timestamps[p[1]]
             /\ events[k].end = Timestamps[p[2]]
             /\ (p[1] = p[2]) => FracEq(events[k].duration, Zero)
             /\ FracGE(events[k].duration, 0)

ExactMinutes(e) == FracEq(e.duration, Frac(e.end - e.start, SecondsPerMinute))

\* the minutes from start to end, rounded to the nearest ten-thousandth
MinutesToFourDecimals(e) ==
    LET diff == e.duration.num * SecondsPerMinute - (e.end - e.start) * 10000
    IN /\ e.duration.den = 10000
       /\ 2 * diff <= SecondsPerMinute
       /\ 2 * diff >= -SecondsPerMinute

\* C4 as stated: every idle or low-speed event runs from the first to the
\* last sample of its run and its duration is exactly (end - start) in
\* minutes; a single-sample run gives 0 and no duration is negative.
C4_DurationIsEndMinusStart ==
    /\ EventsSpanRuns(idle_events, IdleTags)
    /\ EventsSpanRuns(low_speed_events_all, LowSpeedTags)
    /\ \A k \in 1..Len(idle_events) : ExactMinutes(idle_events[k])
    /\ \A k \in 1..Len(low_speed_events_all) : ExactMinutes(low_speed_events_all[k])

\* C4 amended: as above, except that the duration of a low-speed event is
\* (end - start) in minutes rounded to four decimal places.
C4_DurationLowSpeedRounded ==
    /\ EventsSpanRuns(idle_events, IdleTags)
    /\ EventsSpanRuns(low_speed_events_all, LowSpeedTags)
    /\ \A k \in 1..Len(idle_events) : ExactMinutes(idle_events[k])
    /\ \A k \in 1..Len(low_speed_events_all) :
          MinutesToFourDecimals(low_speed_events_all[k])

C4_Witness ==
    /\ \E k \in 1..Len(low_speed_events_all) :
          /\ low_speed_events_all[k].end - low_speed_events_all[k].start = 1
          /\ low_speed_events_all[k].duration = Frac(167, 10000)
    /\ \E k \in 1..Len(idle_events) :
          /\ idle_events[k].start = idle_events[k].end
          /\ idle_events[k].duration.num = 0

----------------------------------------------------------------------------
(* C5 *)

\* the idle true-runs lasting at least the idle threshold
QualifyingIdleRuns ==
    {p \in TrueRuns(IdleTags) :
        Timestamps[p[2]] - Timestamps[p[1]] >= idle_time * SecondsPerMinute}

\* the table holds one event per qualifying run and nothing else
HoldsQualifyingRuns(events) ==
    /\ Len(events) = Cardinality(QualifyingIdleRuns)
    /\ \A p \in QualifyingIdleRuns :
          \E k \in 1..Len(events) :
              /\ events[k].idle_group = df[p[1]].idle_group
              /\ events[k].start = Timestamps[p[1]]
              /\ events[k].end = Timestamps[p[2]]

----------------------------------------------------------------------------
(* C6 *)

NoRunningSample == \A i \in 1..Len(df) : df[i].speed <= 1
ZeroElapsed == Len(df) <= 1 \/ Timestamps[Len(df)] = Timestamps[1]

\* C6: the KPIs of an empty dataset are all 0; whenever a denominator is
\* zero (no elapsed time, no running sample, at most one sample) the KPI it
\* belongs to is 0; and no KPI is ever NaN or infinite.
C6_ZeroDenominatorGivesZero ==
    /\ (df = <<>>) =>
          /\ FracEq(uptime_percent, Zero)
          /\ FracEq(avg_speed, Zero)
          /\ total_production = 0
          /\ kpi4 = 0
    /\ ZeroElapsed => FracEq(uptime_percent, Zero)
    /\ NoRunningSample => FracEq(avg_speed, Zero)
    /\ (Len(df) <= 1) => total_production = 0
    /\ IsNumber(total_minutes)
    /\ IsNumber(uptime_percent)
    /\ IsNumber(avg_speed)
    /\ IsNumber(kpi1) /\ IsNumber(kpi2) /\ IsNumber(kpi3)

C6_Witness ==
    /\ Len(df) >= 2
    /\ Timestamps[Len(df)] = Timestamps[1]
    /\ \E i \in 1..Len(df) : df[i].is_running
    /\ \E i \in 1..Len(df) : df[i].quantity # df[1].quantity
    /\ uptime_percent = Zero

----------------------------------------------------------------------------
(* C7 *)

\* the first and last instant of the selected window; a single date is both ends
WindowStartInstant ==
    date_range[1] * SecondsPerDay + time_range[1] * SecondsPerHour
WindowEndInstant ==
    date_range[Len(date_range)] * SecondsPerDay + time_range[2] * SecondsPerHour
        + (SecondsPerHour - 1)

Rows(table) == {table[k] : k \in 1..Len(table)}

\* C7: the window-filtered idle-events table holds exactly the qualifying
\* idle events with start >= (start_date, start_hour:00:00) and
\* end <= (end_date, end_hour:59:59): containment, not overlap; one selected
\* date acts as start_date = end_date.
C7_WindowKeepsContainedEvents ==
    (df # <<>>) =>
        /\ Rows(filtered_idle_events) =
              {e \in Rows(long_idles) :
                  e.start >= WindowStartInstant /\ e.end <= WindowEndInstant}
        /\ Len(filtered_idle_events) = Cardinality(Rows(filtered_idle_events))

C7_Witness ==
    /\ Len(date_range) = 1
    /\ \E e \in Rows(long_idles) :
          /\ e.start >= WindowStartInstant
          /\ e.start <= WindowEndInstant
          /\ e.end > WindowEndInstant
          /\ e \notin Rows(filtered_idle_events)

----------------------------------------------------------------------------
(* C8 *)

Minutes(m) == m * SecondsPerMinute
Whole(n) == Frac(n, 1)

StartsEndsDurations(events) ==
    [k \in 1..Len(events) |-> <<events[k].start, events[k].end>>]

\* C8: samples at minutes 0..9 with speeds [0,0,0,5,5,12,12,3,0,0], min-speed
\* threshold 10 and idle threshold 3 give idle runs 0-2 (2 min) and 8-9
\* (1 min), neither qualifying, so the idle event count is 0; and two
\* low-speed events, minutes 3-4 (speed 5, 1 min) and minute 7 (speed 3, 0 min).
C8_Scenario ==
    (RawOf(df) = ScenarioRaw /\ mc_min_speed_req = 10 /\ idle_time = 3) =>
        /\ StartsEndsDurations(idle_events) =
              << <<Minutes(0), Minutes(2)>>, <<Minutes(8), Minutes(9)>> >>
        /\ FracEq(idle_events[1].duration, Whole(2))
        /\ FracEq(idle_events[2].duration, Whole(1))
        /\ long_idles = <<>>
        /\ display_idle_events = <<>>
        /\ kpi4 = 0
        /\ StartsEndsDurations(low_speed_events_all) =
              << <<Minutes(3), Minutes(4)>>, <<Minutes(7), Minutes(7)>> >>
        /\ FracEq(low_speed_events_all[1].duration, Whole(1))
        /\ FracEq(low_speed_events_all[2].duration, Whole(0))
        /\ low_speed_events_all[1].min_speed = 5 /\ low_speed_events_all[1].max_speed = 5
        /\ low_speed_events_all[2].min_speed = 3 /\ low_speed_events_all[2].max_speed = 3
        /\ Len(low_speed_events_sorted) = 2

C8_Witness ==
    /\ RawOf(df) = ScenarioRaw
    /\ mc_min_speed_req = 10
    /\ idle_time = 3
    /\ Len(idle_events) = 2
    /\ Len(low_speed_events_all) = 2

----------------------------------------------------------------------------
(* C9 *)

InSelectedWindow(r) ==
    /\ DateOf(r.timestamp) >= date_range[1]
    /\ DateOf(r.timestamp) <= date_range[Len(date_range)]
    /\ HourOf(r.timestamp) >= time_range[1]
    /\ HourOf(r.timestamp) <= time_range[2]

\* s is the rows of d that satisfy InSelectedWindow, in the order of d
IsWindowSubsequence(s, d) ==
    LET idx == {i \in 1..Len(d) : InSelectedWindow(d[i])}
    IN /\ Len(s) = Cardinality(idx)
       /\ \A i \in idx : s[Cardinality({j \in idx : j <= i})] = d[i]

HourRows(h) == {k \in 1..Len(filtered_df) : HourOf(filtered_df[k].timestamp) = h}
FirstOf(S) == CHOOSE k \in S : \A j \in S : k <= j
LastOf(S) == CHOOSE k \in S : \A j \in S : k >= j

----------------------------------------------------------------------------
(* C10 *)

\* C10: the uptime shown is a percentage: it lies between 0 and 100 for
\* every sample sequence.
C10_UptimeWithinPercentRange ==
    /\ FracGE(kpi1, 0)
    /\ kpi1.num <= 100 * kpi1.den
    /\ FracGE(uptime_percent, 0)
    /\ uptime_percent.num <= 100 * uptime_percent.den

----------------------------------------------------------------------------
(* C11 *)

\* the samples of the idle run an idle event was made from
EventSamples(e) ==
    {i \in 1..Len(df) : df[i].idle /\ df[i].idle_group = e.idle_group}

\* C11: every sample of an event shown in the window-filtered idle-events
\* table is one of the filtered samples, for any date range and hour range.
C11_ShownEventsLieInFilteredSamples ==
    \A e \in Rows(filtered_idle_events) :
        \A i \in EventSamples(e) : df[i] \in Rows(filtered_df)

----------------------------------------------------------------------------
(* C12 *)

\* consecutive events of a table, as emitted, do not overlap in time
InRunOrder(events) ==
    \A k \in 1..(Len(events) - 1) :
        /\ events[k].start <= events[k].end
        /\ events[k].end <= events[k + 1].start

RunSamples(p) == p[1]..p[2]

\* C12: on the timestamp-sorted samples the events of each table come out in
\* run order without overlapping: each event ends no later than the next one
\* starts; and no sample belongs to an idle event and to a low-speed event.
C12_EventsOrderedAndDisjoint ==
    /\ InRunOrder(idle_events)
    /\ InRunOrder(low_speed_events_all)
    /\ \A k \in 1..(Len(idle_events) - 1) :
          idle_events[k].idle_group < idle_events[k + 1].idle_group
    /\ \A k \in 1..Len(idle_events) : \A m \in 1..Len(low_speed_events_all) :
          RunSamples(NthTrueRun(IdleTags, k))
              \cap RunSamples(NthTrueRun(LowSpeedTags, m)) = {}

C12_Witness ==
    /\ Len(idle_events) = 2
    /\ Len(low_speed_events_all) = 1
    /\ idle_events[1].end < idle_events[2].start
    /\ idle_events[1].end <= low_speed_events_all[1].start
    /\ low_speed_events_all[1].end <= idle_events[2].start

====
